---- MODULE Spec2Model ----
\* Topology-aware balanced placement (pkg scheduler, appended to
\* src/pkg/cache/localqueue.go): simulateGreedy, balanceThresholdValue,
\* selectOptimalDomainSetToFit and placeSlicesOnDomainsBalanced.
\*
\* A *domain is modelled by its index in the candidate list `domains`
\* (children or grandchildren of the starting domain); a []*domain is a
\* sequence of indices, and the heap of domain objects is the sequence of
\* records D.
EXTENDS Integers, Sequences, FiniteSets, TLC

\* ---------------------------------------------------------------- bounds
MaxDomains == 3
MaxSliceState == 3
MaxTotalSliceState == 5
MaxSliceCount == 5
MaxLeaderCount == 2
MaxSliceSize == 2

\* ------------------------------------------------------------- constants
\* int32(-1 << 31), "minus infinity" of the winner search.
MinInt32 == -2147483647 - 1

ErrCannotFit == "TAS Balanced Placement Error: Cannot find optimal domain set to fit"
ErrThreshold == "TAS Balanced Placement Error: Not enough slices to meet the threshold"
ErrNotPlaced == "TAS Balanced Placement Error: Not all slices or leaders could be placed"
ErrStartingDomain == "cannot fit on starting domain"
\* The panic of an int32 division by zero.
PanicDivide == "runtime error: integer divide by zero"

\* ------------------------------------------------------------ data model
\* The counters of one domain for a request of slices of size sz.
Domain(ss, swl, ls, sz) ==
  [sliceState |-> ss, sliceStateWithLeader |-> swl, leaderState |-> ls,
   state |-> ss * sz, stateWithLeader |-> swl * sz]

\* 0 <= slice_state_with_leader <= slice_state, leader_state in {0, 1}.
ValidDomain(d) ==
  /\ 0 <= d.sliceStateWithLeader
  /\ d.sliceStateWithLeader <= d.sliceState
  /\ d.leaderState \in {0, 1}

DomainShapes(sz) ==
  {d \in {Domain(ss, swl, ls, sz) :
             ss \in 0..MaxSliceState, swl \in 0..MaxSliceState, ls \in {0, 1}} :
     ValidDomain(d)}

RECURSIVE TotalSliceState(_)
TotalSliceState(D) ==
  IF D = <<>> THEN 0 ELSE Head(D).sliceState + TotalSliceState(Tail(D))

\* The candidate lists of exactly n domains whose slice_state sums to at most
\* MaxTotalSliceState.
RECURSIVE TopologiesOfLen(_, _)
TopologiesOfLen(n, sz) ==
  IF n = 0 THEN {<<>>}
  ELSE {Append(x[1], x[2]) :
          x \in {y \in TopologiesOfLen(n - 1, sz) \X DomainShapes(sz) :
                   TotalSliceState(y[1]) + y[2].sliceState <= MaxTotalSliceState}}

Topologies(sz) == UNION {TopologiesOfLen(n, sz) : n \in 0..MaxDomains}

\* The starting domain is read only for the two counters its guard compares.
StartingDomains ==
  [sliceStateWithLeader : 0..(MaxSliceCount + 1), leaderState : 0..MaxLeaderCount]

\* The starting domains of a call: those around the edge of the guard for the
\* request (sc, lc).
StartingDomainsFor(sc, lc) ==
  [sliceStateWithLeader : {sc - 1, sc} \cap Nat, leaderState : {lc - 1, lc} \cap Nat]

\* A nil []*domain and an empty one are different results.
NilSlice == [isNil |-> TRUE, list |-> <<>>]
Slice(q) == [isNil |-> FALSE, list |-> q]

Min(a, b) == IF a <= b THEN a ELSE b

\* ---------------------------------------------------------------- sorting
\* The sequence s rearranged so that the element at index j lands at position
\* rank[j] + 1.
PlaceByRank(s, rank) ==
  [p \in 1..Len(s) |-> s[CHOOSE j \in 1..Len(s) : rank[j] = p - 1]]

\* sorted_domains(ds, ascending = false): stable, descending slice_state. The
\* rank of an element counts those that sort before it and, among equals,
\* those that precede it in ds.
sortedDomains(D, ds) ==
  LET before(a, b) == D[a].sliceState > D[b].sliceState
  IN PlaceByRank(ds, [j \in 1..Len(ds) |-> Cardinality({k \in 1..Len(ds) :
       before(ds[k], ds[j]) \/ (~before(ds[j], ds[k]) /\ k < j)})])

\* sorted_domains_with_leader(ds, ascending = false): stable, descending
\* slice_state_with_leader, ties by slice_state.
sortedDomainsWithLeader(D, ds) ==
  LET before(a, b) ==
        \/ D[a].sliceStateWithLeader > D[b].sliceStateWithLeader
        \/ /\ D[a].sliceStateWithLeader = D[b].sliceStateWithLeader
           /\ D[a].sliceState > D[b].sliceState
  IN PlaceByRank(ds, [j \in 1..Len(ds) |-> Cardinality({k \in 1..Len(ds) :
       before(ds[k], ds[j]) \/ (~before(ds[j], ds[k]) /\ k < j)})])

\* ------------------------------------------------------- simulateGreedy
\* The leader loop: indices idx.. of sorted, while leaders remain and the
\* domain at idx has leaderState > 0.
RECURSIVE LeaderLoop(_, _, _, _)
LeaderLoop(D, sorted, idx, acc) ==
  IF acc.leaders > 0 /\ idx <= Len(sorted) /\ D[sorted[idx]].leaderState > 0
  THEN LeaderLoop(D, sorted, idx + 1,
         [count |-> acc.count + 1,
          last |-> sorted[idx],
          leaders |-> acc.leaders - D[sorted[idx]].leaderState,
          slices |-> acc.slices - D[sorted[idx]].sliceStateWithLeader,
          idx |-> idx + 1])
  ELSE acc

\* The slice loop over remainingSorted.
RECURSIVE SliceLoop(_, _, _, _)
SliceLoop(D, sorted, idx, acc) ==
  IF acc.slices > 0 /\ idx <= Len(sorted) /\ D[sorted[idx]].sliceState > 0
  THEN SliceLoop(D, sorted, idx + 1,
         [count |-> acc.count + 1,
          last |-> sorted[idx],
          slices |-> acc.slices - D[sorted[idx]].sliceState])
  ELSE acc

GreedyFail == [fits |-> FALSE, count |-> 0, lastDomainWithLeader |-> 0, lastDomain |-> 0]

\* lastDomainWithLeader, lastDomain: a domain index, 0 for nil.
simulateGreedy(D, ds, sc, lc) ==
  LET init == [count |-> 0, last |-> 0, leaders |-> lc, slices |-> sc, idx |-> 1]
      sorted == sortedDomainsWithLeader(D, ds)
      afterLeaders == IF lc > 0 THEN LeaderLoop(D, sorted, 1, init) ELSE init
      remainingSorted ==
        IF lc > 0
        THEN sortedDomains(D, SubSeq(sorted, afterLeaders.idx, Len(sorted)))
        ELSE sortedDomains(D, ds)
      afterSlices ==
        SliceLoop(D, remainingSorted, 1,
          [count |-> afterLeaders.count, last |-> 0, slices |-> afterLeaders.slices])
  IN IF afterLeaders.leaders > 0 THEN GreedyFail
     ELSE IF afterSlices.slices > 0 THEN GreedyFail
     ELSE [fits |-> TRUE, count |-> afterSlices.count,
           lastDomainWithLeader |-> afterLeaders.last, lastDomain |-> afterSlices.last]

\* The threshold is not clamped to the last domain taken without leader.
balanceThresholdValueNoClamp(startingDomain, D, ds, sc, lc) ==
  LET g == simulateGreedy(D, ds, sc, lc)
      t0 == sc \div g.count
      t1 == IF g.lastDomainWithLeader # 0
            THEN Min(t0, D[g.lastDomainWithLeader].sliceStateWithLeader) ELSE t0
  IN IF sc = 0 /\ lc = 0 THEN [threshold |-> 0, ok |-> TRUE, panic |-> FALSE]
     ELSE IF startingDomain.sliceStateWithLeader < sc \/ startingDomain.leaderState < lc
       THEN [threshold |-> 0, ok |-> FALSE, panic |-> FALSE]
     ELSE IF ~g.fits THEN [threshold |-> 0, ok |-> FALSE, panic |-> FALSE]
     ELSE IF g.count = 0 THEN [threshold |-> 0, ok |-> FALSE, panic |-> TRUE]
     ELSE [threshold |-> t1, ok |-> TRUE, panic |-> FALSE]

\* The zero request takes the general path instead of returning (0, true).
balanceThresholdValueNoZeroCase(startingDomain, D, ds, sc, lc) ==
  LET g == simulateGreedy(D, ds, sc, lc)
      t0 == IF g.count = 0 THEN 0 ELSE sc \div g.count
      t1 == IF g.lastDomainWithLeader # 0
            THEN Min(t0, D[g.lastDomainWithLeader].sliceStateWithLeader) ELSE t0
      t2 == IF g.lastDomain # 0 THEN Min(t1, D[g.lastDomain].sliceState) ELSE t1
  IN IF startingDomain.sliceStateWithLeader < sc \/ startingDomain.leaderState < lc
       THEN [threshold |-> 0, ok |-> FALSE, panic |-> FALSE]
     ELSE IF ~g.fits THEN [threshold |-> 0, ok |-> FALSE, panic |-> FALSE]
     ELSE IF g.count = 0 THEN [threshold |-> 0, ok |-> FALSE, panic |-> TRUE]
     ELSE [threshold |-> t2, ok |-> TRUE, panic |-> FALSE]

\* The threshold starts from sliceCount, not from its share per domain.
balanceThresholdValueNoDivision(startingDomain, D, ds, sc, lc) ==
  LET g == simulateGreedy(D, ds, sc, lc)
      t0 == sc
      t1 == IF g.lastDomainWithLeader # 0
            THEN Min(t0, D[g.lastDomainWithLeader].sliceStateWithLeader) ELSE t0
      t2 == IF g.lastDomain # 0 THEN Min(t1, D[g.lastDomain].sliceState) ELSE t1
  IN IF sc = 0 /\ lc = 0 THEN [threshold |-> 0, ok |-> TRUE, panic |-> FALSE]
     ELSE IF startingDomain.sliceStateWithLeader < sc \/ startingDomain.leaderState < lc
       THEN [threshold |-> 0, ok |-> FALSE, panic |-> FALSE]
     ELSE IF ~g.fits THEN [threshold |-> 0, ok |-> FALSE, panic |-> FALSE]
     ELSE [threshold |-> t2, ok |-> TRUE, panic |-> FALSE]

\* ------------------------------------------------ balanceThresholdValue
\* ds is domainsToBalance: the children or the grandchildren of startingDomain.
\* panic: the integer division by a zero selectedDomainsCount.
balanceThresholdValue(startingDomain, D, ds, sc, lc) ==
  LET g == simulateGreedy(D, ds, sc, lc)
      t0 == sc \div g.count
      t1 == IF g.lastDomainWithLeader # 0
            THEN Min(t0, D[g.lastDomainWithLeader].sliceStateWithLeader) ELSE t0
      t2 == IF g.lastDomain # 0 THEN Min(t1, D[g.lastDomain].sliceState) ELSE t1
  IN IF sc = 0 /\ lc = 0 THEN [threshold |-> 0, ok |-> TRUE, panic |-> FALSE]
     ELSE IF startingDomain.sliceStateWithLeader < sc \/ startingDomain.leaderState < lc
       THEN [threshold |-> 0, ok |-> FALSE, panic |-> FALSE]
     ELSE IF ~g.fits THEN [threshold |-> 0, ok |-> FALSE, panic |-> FALSE]
     ELSE IF g.count = 0 THEN [threshold |-> 0, ok |-> FALSE, panic |-> TRUE]
     ELSE [threshold |-> t2, ok |-> TRUE, panic |-> FALSE]

\* ------------------------------------------- selectOptimalDomainSetToFit
\* maps.Keys yields the keys of a Go map in an order the runtime picks anew for
\* every iteration; `order` is that pick: 0 ascending, 1 descending.
MapOrders == {0, 1}

mapsKeys(S, order) ==
  LET n == Cardinality(S)
      below == [x \in S |-> Cardinality({y \in S : y < x})]
  IN [p \in 1..n |-> CHOOSE x \in S :
        below[x] = IF order = 0 THEN p - 1 ELSE n - p]

\* The keys are ranged over as maps.Keys yields them, without sorting.
slicesUnsorted(q) == q

\* slices.Sorted: the values in ascending order.
slicesSorted(q) ==
  PlaceByRank(q, [j \in 1..Len(q) |-> Cardinality({k \in 1..Len(q) :
    q[k] < q[j] \/ (q[k] = q[j] /\ k < j)})])

\* domainPlacements[i] is a set of cells [l, s, p]: leaders left, slice units
\* left, and the list of domains placed; at most one cell per (l, s).
HasCell(level, l, s) == \E c \in level : c.l = l /\ c.s = s

\* The cell is written whether or not it is there already.
PutAlways(level, l, s, p) ==
  {c \in level : ~(c.l = l /\ c.s = s)} \cup {[l |-> l, s |-> s, p |-> p]}

\* if _, alreadyThere := m[l][s]; !alreadyThere { m[l][s] = p }
PutIfAbsent(level, l, s, p) ==
  IF HasCell(level, l, s) THEN level ELSE level \cup {[l |-> l, s |-> s, p |-> p]}

\* The body of the two inner loops for one cell of domainPlacements[i-1].
VisitCell(D, d, level, before) ==
  LET newPlacement == Append(before.p, d)
      withLeader ==
        IF before.l > 0 /\ D[d].leaderState > 0
        THEN PutIfAbsent(level, before.l - D[d].leaderState,
                         before.s - D[d].stateWithLeader, newPlacement)
        ELSE level
      withoutLeader ==
        IF D[d].sliceState > 0
        THEN PutIfAbsent(withLeader, before.l, before.s - D[d].state, newPlacement)
        ELSE withLeader
  IN IF before.l <= 0 /\ before.s <= 0 THEN level ELSE withoutLeader

\* The cells of a level in the order the two range loops visit them.
RECURSIVE Concat(_)
Concat(qs) == IF qs = <<>> THEN <<>> ELSE Head(qs) \o Concat(Tail(qs))

CellAt(level, l, s) == CHOOSE c \in level : c.l = l /\ c.s = s

CellsInOrder(level, order) ==
  LET leaders == slicesSorted(mapsKeys({c.l : c \in level}, order))
      states == [l \in {c.l : c \in level} |->
                   slicesSorted(mapsKeys({c.s : c \in {x \in level : x.l = l}}, order))]
  IN Concat([j \in 1..Len(leaders) |->
        [k \in 1..Len(states[leaders[j]]) |->
           CellAt(level, leaders[j], states[leaders[j]][k])]])

RECURSIVE VisitCells(_, _, _, _, _)
VisitCells(D, d, level, cells, k) ==
  IF k > Len(cells) THEN level
  ELSE VisitCells(D, d, VisitCell(D, d, level, cells[k]), cells, k + 1)

\* The levels are visited upwards, so a level already extended with d is
\* extended with d again.
RECURSIVE LevelLoopUp(_, _, _, _, _, _)
LevelLoopUp(D, d, P, j, top, order) ==
  IF j > top THEN P
  ELSE LevelLoopUp(D, d,
         [P EXCEPT ![j] = VisitCells(D, d, P[j], CellsInOrder(P[j - 1], order), 1)],
         j + 1, top, order)

LevelLoopAscending(D, d, P, i, order) == LevelLoopUp(D, d, P, 1, i, order)

\* for i := optimalNumberOfDomains; i > 0; i-- { ... } for one domain d.
RECURSIVE LevelLoop(_, _, _, _, _)
LevelLoop(D, d, P, i, order) ==
  IF i <= 0 THEN P
  ELSE LevelLoop(D, d,
         [P EXCEPT ![i] = VisitCells(D, d, P[i], CellsInOrder(P[i - 1], order), 1)],
         i - 1, order)

\* for _, d := range domains { ... }
RECURSIVE DomainLoop(_, _, _, _, _, _)
DomainLoop(D, ds, k, P, opt, order) ==
  IF k > Len(ds) THEN P
  ELSE DomainLoop(D, ds, k + 1, LevelLoop(D, ds[k], P, opt, order), opt, order)

MaxOf(S) == CHOOSE x \in S : \A y \in S : y <= x

MinOf(S) == CHOOSE x \in S : \A y \in S : x <= y

\* The winner is the cell of the smallest slicesLeft, not the largest.
BestPlacementLoosest(level, order) ==
  LET keys == slicesSorted(mapsKeys({c.l : c \in level}, order))
      js == {j \in 0..(Len(keys) - 1) : j > MinInt32 /\ j <= 0}
      bestLeaderPlacement ==
        IF js = {} THEN {} ELSE {c \in level : c.l = MaxOf(js)}
      ss == {c.s : c \in {x \in bestLeaderPlacement : x.s > MinInt32 /\ x.s <= 0}}
  IN IF ss = {} THEN NilSlice
     ELSE Slice((CHOOSE c \in bestLeaderPlacement : c.s = MinOf(ss)).p)

\* The winner must have slicesLeft = 0.
BestPlacementExactFit(level, order) ==
  LET keys == slicesSorted(mapsKeys({c.l : c \in level}, order))
      js == {j \in 0..(Len(keys) - 1) : j > MinInt32 /\ j <= 0}
      bestLeaderPlacement ==
        IF js = {} THEN {} ELSE {c \in level : c.l = MaxOf(js)}
      ss == {c.s : c \in {x \in bestLeaderPlacement : x.s > MinInt32 /\ x.s = 0}}
  IN IF ss = {} THEN NilSlice
     ELSE Slice((CHOOSE c \in bestLeaderPlacement : c.s = MaxOf(ss)).p)

\* The winner: `for j := range slices.Sorted(...)` ranges over the indices of
\* the sorted keys, and the cell map is then looked up at that index.
BestPlacement(level, order) ==
  LET keys == slicesSorted(mapsKeys({c.l : c \in level}, order))
      js == {j \in 0..(Len(keys) - 1) : j > MinInt32 /\ j <= 0}
      bestLeaderPlacement ==
        IF js = {} THEN {} ELSE {c \in level : c.l = MaxOf(js)}
      ss == {c.s : c \in {x \in bestLeaderPlacement : x.s > MinInt32 /\ x.s <= 0}}
  IN IF ss = {} THEN NilSlice
     ELSE Slice((CHOOSE c \in bestLeaderPlacement : c.s = MaxOf(ss)).p)

\* priorizeByEntropy is false on the path placeSlicesOnDomainsBalanced takes.
selectOptimalDomainSetToFit(D, ds, sc, lc, sz, order) ==
  LET g == simulateGreedy(D, ds, sc, lc)
      opt == g.count
      P0 == [i \in 0..opt |-> IF i = 0 THEN {[l |-> lc, s |-> sc * sz, p |-> <<>>]} ELSE {}]
      P == DomainLoop(D, ds, 1, P0, opt, order)
  IN IF ~g.fits THEN NilSlice ELSE BestPlacement(P[opt], order)

\* ------------------------------------------ placeSlicesOnDomainsBalanced
\* The extra slices of a domain are not capped by its capacity.
BalanceDomainUncapped(acc, d, sz, thr) ==
  LET extraSlicesToTake ==
        IF acc.leadersLeft > 0 \/ acc.extraSlicesLeft > 0 THEN acc.extraSlicesLeft ELSE 0
      ls == IF acc.leadersLeft > 0 THEN 1 ELSE 0
      newDom == [state |-> (thr + extraSlicesToTake) * sz,
                 sliceState |-> thr + extraSlicesToTake,
                 sliceStateWithLeader |-> (thr + extraSlicesToTake) - ls,
                 stateWithLeader |-> (thr + extraSlicesToTake) * sz - ls,
                 leaderState |-> ls]
  IN [D |-> [acc.D EXCEPT ![d] = newDom],
      extraSlicesLeft |-> acc.extraSlicesLeft - extraSlicesToTake,
      leadersLeft |-> IF acc.leadersLeft > 0 THEN acc.leadersLeft - 1 ELSE acc.leadersLeft]

\* One iteration of the balancer loop on domain d.
BalanceDomain(acc, d, sz, thr) ==
  LET dom == acc.D[d]
      extraSlicesToTake ==
        IF acc.leadersLeft > 0
          THEN Min(dom.sliceStateWithLeader - thr, acc.extraSlicesLeft)
        ELSE IF acc.extraSlicesLeft > 0
          THEN Min(dom.sliceState - thr, acc.extraSlicesLeft)
        ELSE 0
      ls == IF acc.leadersLeft > 0 THEN 1 ELSE 0
      newDom == [state |-> (thr + extraSlicesToTake) * sz,
                 sliceState |-> thr + extraSlicesToTake,
                 sliceStateWithLeader |-> (thr + extraSlicesToTake) - ls,
                 stateWithLeader |-> (thr + extraSlicesToTake) * sz - ls,
                 leaderState |-> ls]
  IN [D |-> [acc.D EXCEPT ![d] = newDom],
      extraSlicesLeft |-> acc.extraSlicesLeft - extraSlicesToTake,
      leadersLeft |-> IF acc.leadersLeft > 0 THEN acc.leadersLeft - 1 ELSE acc.leadersLeft]

RECURSIVE BalanceLoop(_, _, _, _, _)
BalanceLoop(acc, sorted, k, sz, thr) ==
  IF k > Len(sorted) THEN acc
  ELSE BalanceLoop(BalanceDomain(acc, sorted[k], sz, thr), sorted, k + 1, sz, thr)

\* The residual check after the balancer loop is left out.
placeOnSelectedUnchecked(D, selected, sc, lc, sz, thr) ==
  LET sorted == sortedDomainsWithLeader(D, selected.list)
      acc == BalanceLoop([D |-> D, extraSlicesLeft |-> sc - Len(sorted) * thr,
                          leadersLeft |-> lc], sorted, 1, sz, thr)
  IN IF selected.isNil
       THEN [D |-> D, result |-> NilSlice, diag |-> ErrCannotFit]
     ELSE IF sc < Len(selected.list) * thr
       THEN [D |-> D, result |-> NilSlice, diag |-> ErrThreshold]
     ELSE [D |-> acc.D, result |-> Slice(sorted), diag |-> ""]

\* The list is returned together with the residual diagnostic.
placeOnSelectedKeepList(D, selected, sc, lc, sz, thr) ==
  LET sorted == sortedDomainsWithLeader(D, selected.list)
      acc == BalanceLoop([D |-> D, extraSlicesLeft |-> sc - Len(sorted) * thr,
                          leadersLeft |-> lc], sorted, 1, sz, thr)
  IN IF selected.isNil
       THEN [D |-> D, result |-> NilSlice, diag |-> ErrCannotFit]
     ELSE IF sc < Len(selected.list) * thr
       THEN [D |-> D, result |-> NilSlice, diag |-> ErrThreshold]
     ELSE IF acc.extraSlicesLeft > 0 \/ acc.leadersLeft > 0
       THEN [D |-> acc.D, result |-> Slice(sorted), diag |-> ErrNotPlaced]
     ELSE [D |-> acc.D, result |-> Slice(sorted), diag |-> ""]

\* A nil selection is not refused: the balancer runs on the empty list.
placeOnSelectedNilAccepted(D, selected, sc, lc, sz, thr) ==
  LET sorted == sortedDomainsWithLeader(D, selected.list)
      acc == BalanceLoop([D |-> D, extraSlicesLeft |-> sc - Len(sorted) * thr,
                          leadersLeft |-> lc], sorted, 1, sz, thr)
  IN IF sc < Len(selected.list) * thr
       THEN [D |-> D, result |-> NilSlice, diag |-> ErrThreshold]
     ELSE IF acc.extraSlicesLeft > 0 \/ acc.leadersLeft > 0
       THEN [D |-> acc.D, result |-> NilSlice, diag |-> ErrNotPlaced]
     ELSE [D |-> acc.D, result |-> Slice(sorted), diag |-> ""]

\* Lines 220-252: the guards, the balancer loop and the residual check on the
\* list the DP returned. Returns the heap after the call, the result list and
\* the diagnostic.
placeOnSelected(D, selected, sc, lc, sz, thr) ==
  LET sorted == sortedDomainsWithLeader(D, selected.list)
      acc == BalanceLoop([D |-> D, extraSlicesLeft |-> sc - Len(sorted) * thr,
                          leadersLeft |-> lc], sorted, 1, sz, thr)
  IN IF selected.isNil
       THEN [D |-> D, result |-> NilSlice, diag |-> ErrCannotFit]
     ELSE IF sc < Len(selected.list) * thr
       THEN [D |-> D, result |-> NilSlice, diag |-> ErrThreshold]
     ELSE IF acc.extraSlicesLeft > 0 \/ acc.leadersLeft > 0
       THEN [D |-> acc.D, result |-> NilSlice, diag |-> ErrNotPlaced]
     ELSE [D |-> acc.D, result |-> Slice(sorted), diag |-> ""]

placeSlicesOnDomainsBalanced(D, ds, sc, lc, sz, thr, order) ==
  placeOnSelected(D, selectOptimalDomainSetToFit(D, ds, sc, lc, sz, order),
                  sc, lc, sz, thr)

\* The orchestrator: threshold, then the DP and the balancer on the same
\* candidates.
place(startingDomain, D, ds, sc, lc, sz, order) ==
  LET t == balanceThresholdValue(startingDomain, D, ds, sc, lc)
  IN IF ~t.ok THEN [D |-> D, result |-> NilSlice, diag |-> ErrStartingDomain]
     ELSE placeSlicesOnDomainsBalanced(D, ds, sc, lc, sz, t.threshold, order)

\* ------------------------------------------------------- calculateEntropy
\* math.Log2 of 1..18 in micro-bits: the logarithms of the primes rounded, the
\* others their sums, so that proportional distributions compare equal as they
\* do in float64.
Log2Micro ==
  <<0, 1000000, 1584963, 2000000, 2321928, 2584963, 2807355, 3000000, 3169926,
    3321928, 3459432, 3584963, 3700440, 3807355, 3906891, 4000000, 4087463,
    4169926>>

RECURSIVE SumSizes(_)
SumSizes(blockSizes) ==
  IF blockSizes = <<>> THEN 0 ELSE Head(blockSizes) + SumSizes(Tail(blockSizes))

\* The sum of size * log2(size) over the sizes > 0.
RECURSIVE SumSizeLog2(_)
SumSizeLog2(blockSizes) ==
  IF blockSizes = <<>> THEN 0
  ELSE (IF Head(blockSizes) > 0 THEN Head(blockSizes) * Log2Micro[Head(blockSizes)] ELSE 0)
       + SumSizeLog2(Tail(blockSizes))

\* The float64 entropy as the fraction num / den of micro-bits:
\* sum of -p_i * log2(p_i) with p_i = size_i / total is
\* (total * log2(total) - sum of size_i * log2(size_i)) / total.
calculateEntropy(blockSizes) ==
  LET total == SumSizes(blockSizes)
  IN IF Len(blockSizes) = 0 \/ total = 0 THEN [num |-> 0, den |-> 1]
     ELSE [num |-> total * Log2Micro[total] - SumSizeLog2(blockSizes), den |-> total]

\* a > b on two entropies.
EntropyGreater(a, b) == a.num * b.den > b.num * a.den

\* slices.SortFunc on at most 12 elements is an insertion sort, so elements
\* that compare equal keep their order: descending sliceState, then
\* descending entropy of the children's sliceState. ch[d] is the sliceState of
\* the children of d. Returns the domains slice after the sort in place.
sortDomainsByCapacityAndEntropy(D, ch, ds) ==
  LET entropy == [j \in 1..Len(ds) |-> calculateEntropy(ch[ds[j]])]
      before(a, b) ==
        \/ D[ds[a]].sliceState > D[ds[b]].sliceState
        \/ /\ D[ds[a]].sliceState = D[ds[b]].sliceState
           /\ EntropyGreater(entropy[a], entropy[b])
  IN PlaceByRank(ds, [j \in 1..Len(ds) |-> Cardinality({k \in 1..Len(ds) :
       before(k, j) \/ (~before(j, k) /\ k < j)})])

\* The entropy sort runs before simulateGreedy rather than after it.
selectOptimalDomainSetToFitSortedFirst(D, ch, ds, sc, lc, sz, priorizeByEntropy, order) ==
  LET sorted == IF priorizeByEntropy THEN sortDomainsByCapacityAndEntropy(D, ch, ds)
                ELSE ds
      g == simulateGreedy(D, sorted, sc, lc)
      opt == g.count
      P0 == [i \in 0..opt |-> IF i = 0 THEN {[l |-> lc, s |-> sc * sz, p |-> <<>>]} ELSE {}]
      P == DomainLoop(D, sorted, 1, P0, opt, order)
  IN IF ~g.fits THEN [selected |-> NilSlice, domains |-> sorted]
     ELSE [selected |-> BestPlacement(P[opt], order), domains |-> sorted]

\* selectOptimalDomainSetToFit with its priorizeByEntropy parameter: the list
\* returned and the caller's domains slice after the call.
selectOptimalDomainSetToFitByEntropy(D, ch, ds, sc, lc, sz, priorizeByEntropy, order) ==
  LET g == simulateGreedy(D, ds, sc, lc)
      opt == g.count
      sorted == IF priorizeByEntropy THEN sortDomainsByCapacityAndEntropy(D, ch, ds)
                ELSE ds
      P0 == [i \in 0..opt |-> IF i = 0 THEN {[l |-> lc, s |-> sc * sz, p |-> <<>>]} ELSE {}]
      P == DomainLoop(D, sorted, 1, P0, opt, order)
  IN IF ~g.fits THEN [selected |-> NilSlice, domains |-> ds]
     ELSE [selected |-> BestPlacement(P[opt], order), domains |-> sorted]

\* children[d]: the slice_state of every child of domain d, read by the entropy
\* sort only. domainsToBalance: the caller's candidate list, which the entropy
\* sort reorders in place.
VARIABLES domains, preDomains, sliceCount, leaderCount, sliceSize,
          pc, threshold, resultDomains, diag,
          prioritizeByEntropy, children, domainsToBalance,
          domainPlacements, domainIdx, levelIdx, cellIdx

\* ------------------------------------------------------------ cert rotator
\* cr: the channels of the CertRotator, each as the number of times it was
\* closed (a second close panics), the wasCAInjected flag and the two settings
\* that the calls read. certFileExists, ctxDone: the file system and the
\* context. startCall, mountedCall, readyCall, reconcileCall: the position of
\* Start, of the goroutines ensureCertsMounted and ensureReady, and of the
\* Reconcile call in progress. observed: what the two poll functions have seen.
VARIABLES cr, certFileExists, ctxDone, startCall, mountedCall, readyCall,
          reconcileCall, observed

rotatorVars == <<cr, certFileExists, ctxDone, startCall, mountedCall, readyCall,
                 reconcileCall, observed>>

\* AddRotator: the channels are made open and the flag false; no call runs.
RotatorNew(enableReadinessCheck, webhooks) ==
  /\ cr = [certsMounted |-> 0, certsNotMounted |-> 0, caNotInjected |-> 0,
           IsReady |-> 0, wasCAInjected |-> FALSE,
           EnableReadinessCheck |-> enableReadinessCheck, Webhooks |-> webhooks]
  /\ certFileExists = FALSE
  /\ ctxDone = FALSE
  /\ startCall = [pc |-> "new", err |-> ""]
  /\ mountedCall = [pc |-> "off", steps |-> 0]
  /\ readyCall = [pc |-> "off", steps |-> 0]
  /\ reconcileCall = [pc |-> "idle", calls |-> 0, ensured |-> FALSE, attempted |-> <<>>,
                      failed |-> FALSE, stored |-> FALSE, result |-> ""]
  /\ observed = [certFile |-> FALSE, caInjected |-> FALSE]

\* No rotator is in use.
RotatorIdle == RotatorNew(FALSE, 0)

vars == <<domains, preDomains, sliceCount, leaderCount, sliceSize,
          pc, threshold, resultDomains, diag,
          prioritizeByEntropy, children, domainsToBalance,
          domainPlacements, domainIdx, levelIdx, cellIdx,
          cr, certFileExists, ctxDone, startCall, mountedCall, readyCall,
          reconcileCall, observed>>

\* The DP table of selectOptimalDomainSetToFit and the position of its three
\* nested loops: the domain d, the level i and the cell of level i - 1.
dpVars == <<domainPlacements, domainIdx, levelIdx, cellIdx>>

\* No DP is running.
DPIdle ==
  /\ domainPlacements = <<>>
  /\ domainIdx = 0
  /\ levelIdx = 0
  /\ cellIdx = 0

\* The part of the request and of the topology that only the entropy sort reads.
entropyVars == <<prioritizeByEntropy, children, domainsToBalance>>

candidates == [i \in 1..Len(domains) |-> i]

Init ==
  /\ sliceSize \in 1..MaxSliceSize
  /\ domains \in Topologies(sliceSize)
  /\ preDomains = domains
  /\ sliceCount \in 0..MaxSliceCount
  /\ leaderCount \in 0..MaxLeaderCount
  /\ pc = "start"
  /\ threshold = 0
  /\ resultDomains = NilSlice
  /\ diag = ""
  /\ prioritizeByEntropy = FALSE
  /\ children = [d \in 1..Len(domains) |-> <<>>]
  /\ domainsToBalance = candidates
  /\ DPIdle
  /\ RotatorIdle

\* place, step 1: the threshold solver on the starting domain.
BalanceThreshold ==
  /\ pc = "start"
  /\ \E startingDomain \in StartingDomainsFor(sliceCount, leaderCount) :
       \E r \in {balanceThresholdValue(startingDomain, domains, candidates,
                                        sliceCount, leaderCount)} :
          /\ threshold' = r.threshold
          /\ pc' = IF r.ok THEN "threshold" ELSE "done"
          /\ diag' = IF r.ok THEN ""
                     ELSE IF r.panic THEN PanicDivide ELSE ErrStartingDomain
  /\ UNCHANGED <<domains, preDomains, sliceCount, leaderCount, sliceSize, resultDomains>>
  /\ UNCHANGED entropyVars
  /\ UNCHANGED dpVars
  /\ UNCHANGED rotatorVars

\* place, steps 3 and 4: the DP and the balancer on the same candidates.
PlaceSlices ==
  /\ pc = "threshold"
  /\ \E order \in MapOrders :
       \E r \in {placeSlicesOnDomainsBalanced(domains, candidates, sliceCount,
                                  leaderCount, sliceSize, threshold, order)} :
          /\ domains' = r.D
          /\ resultDomains' = r.result
          /\ diag' = r.diag
  /\ pc' = "done"
  /\ UNCHANGED <<preDomains, sliceCount, leaderCount, sliceSize, threshold>>
  /\ UNCHANGED entropyVars
  /\ UNCHANGED dpVars
  /\ UNCHANGED rotatorVars

Next == BalanceThreshold \/ PlaceSlices

Spec == Init /\ [][Next]_vars

\* ------------------------------ placeSlicesOnDomainsBalanced called directly
\* The caller passes any threshold, not only the solver's.
MaxThreshold == 1

CallPlaceSlicesOnDomainsBalanced ==
  /\ pc = "start"
  /\ \E thr \in 0..MaxThreshold, order \in MapOrders :
       \E r \in {placeSlicesOnDomainsBalanced(domains, candidates, sliceCount,
                                  leaderCount, sliceSize, thr, order)} :
          /\ threshold' = thr
          /\ domains' = r.D
          /\ resultDomains' = r.result
          /\ diag' = r.diag
  /\ pc' = "done"
  /\ UNCHANGED <<preDomains, sliceCount, leaderCount, sliceSize>>
  /\ UNCHANGED entropyVars
  /\ UNCHANGED dpVars
  /\ UNCHANGED rotatorVars

NextBalanced == CallPlaceSlicesOnDomainsBalanced

SpecBalanced == Init /\ [][NextBalanced]_vars

\* ------------------------------ selectOptimalDomainSetToFit called directly
\* A domain of slice_state s with two children that share s between them.
ChildSplits(s) == {<<s - a, a>> : a \in 0..(s \div 2)}

\* The functions that give every domain of D the slice_state of its children.
RECURSIVE ChildrenOf(_)
ChildrenOf(D) ==
  IF D = <<>> THEN {<<>>}
  ELSE {<<x[1]>> \o x[2] : x \in ChildSplits(Head(D).sliceState) \X ChildrenOf(Tail(D))}

MaxEntropyTotalSliceState == 4

InitEntropy ==
  /\ sliceSize = 1
  /\ domains \in {D \in Topologies(sliceSize) :
                    TotalSliceState(D) <= MaxEntropyTotalSliceState}
  /\ preDomains = domains
  /\ sliceCount \in 0..MaxSliceCount
  /\ leaderCount \in 0..MaxLeaderCount
  /\ pc = "start"
  /\ threshold = 0
  /\ resultDomains = NilSlice
  /\ diag = ""
  /\ prioritizeByEntropy = TRUE
  /\ children \in ChildrenOf(domains)
  /\ domainsToBalance = candidates
  /\ DPIdle
  /\ RotatorIdle

SelectOptimalDomainSetToFit ==
  /\ pc = "start"
  /\ \E order \in MapOrders :
       \E r \in {selectOptimalDomainSetToFitByEntropy(domains, children, domainsToBalance,
                     sliceCount, leaderCount, sliceSize, prioritizeByEntropy, order)} :
          /\ resultDomains' = r.selected
          /\ domainsToBalance' = r.domains
  /\ pc' = "done"
  /\ UNCHANGED <<domains, preDomains, sliceCount, leaderCount, sliceSize, threshold,
                 diag, prioritizeByEntropy, children>>
  /\ UNCHANGED dpVars
  /\ UNCHANGED rotatorVars

NextEntropy == SelectOptimalDomainSetToFit

SpecEntropy == InitEntropy /\ [][NextEntropy]_vars

\* --------------------------- selectOptimalDomainSetToFit, one step at a time
\* Lines 142-157: the simulator, then the table with its one starting cell.
DPStart ==
  /\ pc = "start"
  /\ \E g \in {simulateGreedy(domains, candidates, sliceCount, leaderCount)} :
       IF ~g.fits
       THEN /\ pc' = "done"
            /\ UNCHANGED dpVars
       ELSE /\ pc' = "dp"
            /\ domainPlacements' =
                 [j \in 0..g.count |->
                    IF j = 0
                    THEN {[l |-> leaderCount, s |-> sliceCount * sliceSize, p |-> <<>>]}
                    ELSE {}]
            /\ domainIdx' = 1
            /\ levelIdx' = g.count
            /\ cellIdx' = 1
  /\ resultDomains' = NilSlice
  /\ UNCHANGED <<domains, preDomains, sliceCount, leaderCount, sliceSize, threshold, diag>>
  /\ UNCHANGED entropyVars
  /\ UNCHANGED rotatorVars

\* domainPlacements has the levels 0..optimalNumberOfDomains.
optimalNumberOfDomains == Cardinality(DOMAIN domainPlacements) - 1

\* The cells of domainPlacements[i-1] in the order lines 161-162 range over.
beforeCells(order) ==
  IF levelIdx >= 1 THEN CellsInOrder(domainPlacements[levelIdx - 1], order) ELSE <<>>

\* Lines 163-190: the loop body for one cell of domainPlacements[i-1].
DPVisit ==
  /\ pc = "dp"
  /\ domainIdx <= Len(domains)
  /\ levelIdx >= 1
  /\ \E order \in MapOrders :
       \E cells \in {beforeCells(order)} :
         /\ cellIdx <= Len(cells)
         /\ domainPlacements' =
              [domainPlacements EXCEPT ![levelIdx] =
                 VisitCell(domains, candidates[domainIdx], domainPlacements[levelIdx],
                           cells[cellIdx])]
  /\ cellIdx' = cellIdx + 1
  /\ UNCHANGED <<domains, preDomains, sliceCount, leaderCount, sliceSize, threshold,
                 diag, pc, resultDomains, domainIdx, levelIdx>>
  /\ UNCHANGED entropyVars
  /\ UNCHANGED rotatorVars

\* Line 160: i-- once the cells of domainPlacements[i-1] are exhausted.
DPNextLevel ==
  /\ pc = "dp"
  /\ domainIdx <= Len(domains)
  /\ levelIdx >= 1
  /\ \E order \in MapOrders : cellIdx > Len(beforeCells(order))
  /\ levelIdx' = levelIdx - 1
  /\ cellIdx' = 1
  /\ UNCHANGED <<domains, preDomains, sliceCount, leaderCount, sliceSize, threshold,
                 diag, pc, resultDomains, domainPlacements, domainIdx>>
  /\ UNCHANGED entropyVars
  /\ UNCHANGED rotatorVars

\* Line 159: the next domain once i has reached 0.
DPNextDomain ==
  /\ pc = "dp"
  /\ domainIdx <= Len(domains)
  /\ levelIdx = 0
  /\ domainIdx' = domainIdx + 1
  /\ levelIdx' = optimalNumberOfDomains
  /\ cellIdx' = 1
  /\ UNCHANGED <<domains, preDomains, sliceCount, leaderCount, sliceSize, threshold,
                 diag, pc, resultDomains, domainPlacements>>
  /\ UNCHANGED entropyVars
  /\ UNCHANGED rotatorVars

\* Lines 196-215: the winner among the cells of the last level.
DPReturn ==
  /\ pc = "dp"
  /\ domainIdx > Len(domains)
  /\ \E order \in MapOrders :
       resultDomains' = BestPlacement(domainPlacements[optimalNumberOfDomains], order)
  /\ pc' = "done"
  /\ UNCHANGED <<domains, preDomains, sliceCount, leaderCount, sliceSize, threshold, diag>>
  /\ UNCHANGED entropyVars
  /\ UNCHANGED dpVars
  /\ UNCHANGED rotatorVars

NextDP == DPStart \/ DPVisit \/ DPNextLevel \/ DPNextDomain \/ DPReturn

SpecDP == Init /\ [][NextDP]_vars

\* ------------------------------------------------ cert rotator, step by step
MaxWebhooks == 2
MaxReconciles == 2

\* wait.Backoff{Steps: 10}: the condition is polled at most ten times.
BackoffSteps == 10

\* No placement is in progress.
TASIdle ==
  /\ domains = <<>>
  /\ preDomains = <<>>
  /\ sliceCount = 0
  /\ leaderCount = 0
  /\ sliceSize = 1
  /\ pc = "done"
  /\ threshold = 0
  /\ resultDomains = NilSlice
  /\ diag = ""
  /\ prioritizeByEntropy = FALSE
  /\ children = <<>>
  /\ domainsToBalance = <<>>
  /\ DPIdle

tasVars == <<domains, preDomains, sliceCount, leaderCount, sliceSize, pc, threshold,
             resultDomains, diag, entropyVars, dpVars>>

InitRotator ==
  /\ TASIdle
  /\ \E enableReadinessCheck \in BOOLEAN, webhooks \in 0..MaxWebhooks :
       RotatorNew(enableReadinessCheck, webhooks)

\* A receive from a channel returns once the channel is closed.
Closed(ch) == ch >= 1

\* The kubelet mounts the secret: the cert file appears.
MountCertFile ==
  /\ ~certFileExists
  /\ certFileExists' = TRUE
  /\ UNCHANGED <<cr, ctxDone, startCall, mountedCall, readyCall, reconcileCall, observed>>
  /\ UNCHANGED tasVars

\* The manager cancels the context.
CancelContext ==
  /\ ~ctxDone
  /\ ctxDone' = TRUE
  /\ UNCHANGED <<cr, certFileExists, startCall, mountedCall, readyCall, reconcileCall,
                 observed>>
  /\ UNCHANGED tasVars

\* Start up to the ticker loop: an early error return starts no goroutine.
Start ==
  /\ startCall.pc = "new"
  /\ \E err \in {"", "nil reader", "failed waiting for reader to sync",
                 "could not refresh cert on startup"} :
       IF err # ""
       THEN /\ startCall' = [pc |-> "returned", err |-> err]
            /\ UNCHANGED <<mountedCall, readyCall>>
       ELSE /\ startCall' = [pc |-> "tickerLoop", err |-> ""]
            /\ mountedCall' = [pc |-> "poll", steps |-> 0]
            /\ readyCall' = [pc |-> "wait", steps |-> 0]
  /\ UNCHANGED <<cr, certFileExists, ctxDone, reconcileCall, observed>>
  /\ UNCHANGED tasVars

\* The select of the ticker loop; a tick changes nothing the model holds.
StartSelect ==
  /\ startCall.pc = "tickerLoop"
  /\ \/ ctxDone /\ startCall' = [pc |-> "returned", err |-> ""]
     \/ /\ Closed(cr.certsNotMounted)
        /\ startCall' = [pc |-> "returned", err |-> "could not mount certs"]
     \/ /\ Closed(cr.caNotInjected)
        /\ startCall' = [pc |-> "returned", err |-> "could not inject certs to webhooks"]
  /\ UNCHANGED <<cr, certFileExists, ctxDone, mountedCall, readyCall, reconcileCall,
                 observed>>
  /\ UNCHANGED tasVars

\* One poll of wait.ExponentialBackoff: the condition holds, or a step is
\* used up and the last step ends the wait with an error.
Poll(call, ok, onSuccess, onTimeout) ==
  IF ok THEN [call EXCEPT !.pc = onSuccess]
  ELSE IF call.steps + 1 >= BackoffSteps
    THEN [pc |-> onTimeout, steps |-> call.steps + 1]
  ELSE [call EXCEPT !.steps = call.steps + 1]

\* ensureCertsMounted: one os.Stat of the cert file.
EnsureCertsMountedPoll ==
  /\ mountedCall.pc = "poll"
  /\ mountedCall' = Poll(mountedCall, certFileExists, "closeMounted", "closeNotMounted")
  /\ observed' = [observed EXCEPT !.certFile = @ \/ certFileExists]
  /\ UNCHANGED <<cr, certFileExists, ctxDone, startCall, readyCall, reconcileCall>>
  /\ UNCHANGED tasVars

\* ensureCertsMounted: close(cr.certsNotMounted); return, or close(cr.certsMounted).
EnsureCertsMountedClose ==
  /\ \/ /\ mountedCall.pc = "closeNotMounted"
        /\ cr' = [cr EXCEPT !.certsNotMounted = @ + 1]
     \/ /\ mountedCall.pc = "closeMounted"
        /\ cr' = [cr EXCEPT !.certsMounted = @ + 1]
  /\ mountedCall' = [mountedCall EXCEPT !.pc = "done"]
  /\ UNCHANGED <<certFileExists, ctxDone, startCall, readyCall, reconcileCall, observed>>
  /\ UNCHANGED tasVars

\* The receive is let through without the channel being closed.
awaitCertsMountedSkipped(c) == TRUE

\* ensureReady: <-cr.certsMounted
awaitCertsMounted(c) == Closed(c.certsMounted)

EnsureReadyWait ==
  /\ readyCall.pc = "wait"
  /\ awaitCertsMounted(cr)
  /\ readyCall' = [readyCall EXCEPT !.pc = "poll"]
  /\ UNCHANGED <<cr, certFileExists, ctxDone, startCall, mountedCall, reconcileCall,
                 observed>>
  /\ UNCHANGED tasVars

\* ensureReady: one cr.wasCAInjected.Load().
EnsureReadyPoll ==
  /\ readyCall.pc = "poll"
  /\ readyCall' = Poll(readyCall, cr.wasCAInjected, "closeReady", "closeNotInjected")
  /\ observed' = [observed EXCEPT !.caInjected = @ \/ cr.wasCAInjected]
  /\ UNCHANGED <<cr, certFileExists, ctxDone, startCall, mountedCall, reconcileCall>>
  /\ UNCHANGED tasVars

\* ensureReady: close(cr.caNotInjected); return, or close(cr.IsReady).
EnsureReadyClose ==
  /\ \/ /\ readyCall.pc = "closeNotInjected"
        /\ cr' = [cr EXCEPT !.caNotInjected = @ + 1]
     \/ /\ readyCall.pc = "closeReady"
        /\ cr' = [cr EXCEPT !.IsReady = @ + 1]
  /\ readyCall' = [readyCall EXCEPT !.pc = "done"]
  /\ UNCHANGED <<certFileExists, ctxDone, startCall, mountedCall, reconcileCall, observed>>
  /\ UNCHANGED tasVars

\* What the processing of one webhook may run into.
WebhookOutcomes ==
  {"notFound", "getError", "deleting", "injectError", "updateError", "updated"}
FailingOutcomes == {"getError", "injectError", "updateError"}

\* anyError is set to the error of the iteration whatever it is, nil included.
RECURSIVE ensureCertsLastResult(_, _, _, _)
ensureCertsLastResult(outcomes, k, anyError, attempted) ==
  IF k > Len(outcomes) THEN [err |-> anyError, attempted |-> attempted]
  ELSE ensureCertsLastResult(outcomes, k + 1,
         IF outcomes[k] \in FailingOutcomes THEN outcomes[k] ELSE "",
         Append(attempted, k))

\* ensureCerts: every webhook is attempted; an error is kept in anyError and
\* the loop continues.
RECURSIVE ensureCerts(_, _, _, _)
ensureCerts(outcomes, k, anyError, attempted) ==
  IF k > Len(outcomes) THEN [err |-> anyError, attempted |-> attempted]
  ELSE ensureCerts(outcomes, k + 1,
         IF outcomes[k] \in FailingOutcomes THEN outcomes[k] ELSE anyError,
         Append(attempted, k))

Returned(calls, err) ==
  [pc |-> "returned", calls |-> calls, ensured |-> FALSE, attempted |-> <<>>,
   failed |-> FALSE, stored |-> FALSE, result |-> err]

\* Reconcile up to the readiness check; a request for another object returns.
ReconcileBegin ==
  /\ reconcileCall.pc \in {"idle", "returned"}
  /\ reconcileCall.calls < MaxReconciles
  /\ \E forSecret \in BOOLEAN :
       reconcileCall' =
         IF ~forSecret THEN Returned(reconcileCall.calls + 1, "nil")
         ELSE [Returned(reconcileCall.calls + 1, "") EXCEPT
                 !.pc = IF cr.EnableReadinessCheck THEN "select" ELSE "body"]
  /\ UNCHANGED <<cr, certFileExists, ctxDone, startCall, mountedCall, readyCall, observed>>
  /\ UNCHANGED tasVars

\* The select of the readiness check.
ReconcileSelect ==
  /\ reconcileCall.pc = "select"
  /\ \/ /\ Closed(cr.certsMounted)
        /\ reconcileCall' = [reconcileCall EXCEPT !.pc = "body"]
     \/ /\ ctxDone
        /\ reconcileCall' = Returned(reconcileCall.calls, "error")
     \/ /\ Closed(cr.certsNotMounted)
        /\ reconcileCall' = Returned(reconcileCall.calls, "error")
  /\ UNCHANGED <<cr, certFileExists, ctxDone, startCall, mountedCall, readyCall, observed>>
  /\ UNCHANGED tasVars

\* The early returns between the readiness check and ensureCerts.
EarlyReturns ==
  [cacheNotReady |-> "error", secretNotFound |-> "nil", secretGetError |-> "error",
   secretDeleted |-> "nil", refreshError |-> "error", rotatedCA |-> "nil",
   malformedSecret |-> "nil"]

\* The rest of Reconcile: an early return, or ensureCerts and the flag.
ReconcileBody ==
  /\ reconcileCall.pc = "body"
  /\ \/ /\ \E e \in DOMAIN EarlyReturns :
             reconcileCall' = Returned(reconcileCall.calls, EarlyReturns[e])
        /\ UNCHANGED cr
     \/ \E outcomes \in [1..cr.Webhooks -> WebhookOutcomes] :
          \E r \in {ensureCerts(outcomes, 1, "", <<>>)} :
            /\ reconcileCall' =
                 [pc |-> "returned", calls |-> reconcileCall.calls, ensured |-> TRUE,
                  attempted |-> r.attempted,
                  failed |-> \E k \in 1..cr.Webhooks : outcomes[k] \in FailingOutcomes,
                  stored |-> r.err = "",
                  result |-> IF r.err = "" THEN "nil" ELSE "error"]
            /\ cr' = IF r.err = "" THEN [cr EXCEPT !.wasCAInjected = TRUE] ELSE cr
  /\ UNCHANGED <<certFileExists, ctxDone, startCall, mountedCall, readyCall, observed>>
  /\ UNCHANGED tasVars

NextRotator ==
  \/ MountCertFile
  \/ CancelContext
  \/ Start
  \/ StartSelect
  \/ EnsureCertsMountedPoll
  \/ EnsureCertsMountedClose
  \/ EnsureReadyWait
  \/ EnsureReadyPoll
  \/ EnsureReadyClose
  \/ ReconcileBegin
  \/ ReconcileSelect
  \/ ReconcileBody

SpecRotator == InitRotator /\ [][NextRotator]_vars

\* ------------------------------------------------- end-to-end scenarios
\* The scenarios of spec section 8 with their numbers ranging around the
\* stated ones; slice_size is 1 in all of them.
MaxScenarioDomains == 4
MaxScenarioSliceState == 5
MaxTieBreakSliceState == 8

\* S4: child A may host the leader, which costs it one slice; child B may not.
LeaderScenario ==
  \E c \in 1..MaxScenarioSliceState :
    /\ domains \in {<<Domain(c, c - 1, 1, 1), Domain(c, x, 0, 1)>> : x \in 0..c}
    /\ sliceCount \in 1..(2 * c)
    /\ leaderCount = 1
    /\ prioritizeByEntropy = FALSE
    /\ children = <<<<>>, <<>>>>

\* S2, S3: n children of the same capacity c, with or without leader.
EqualScenario ==
  \E n \in 1..MaxScenarioDomains, c \in 1..MaxScenarioSliceState :
    /\ domains \in {[d \in 1..n |-> Domain(c, c, ls[d], 1)] : ls \in [1..n -> {0, 1}]}
    /\ sliceCount \in 1..(n * c)
    /\ leaderCount = 0
    /\ prioritizeByEntropy = FALSE
    /\ children = [d \in 1..n |-> <<>>]

\* S6: two children of the same capacity s, each with two children of its own.
TieBreakScenario ==
  \E s \in 1..MaxTieBreakSliceState :
    /\ domains = <<Domain(s, s, 0, 1), Domain(s, s, 0, 1)>>
    /\ sliceCount \in 1..s
    /\ leaderCount = 0
    /\ prioritizeByEntropy \in BOOLEAN
    /\ children \in ChildSplits(s) \X ChildSplits(s)

InitScenarios ==
  /\ sliceSize = 1
  /\ (LeaderScenario \/ EqualScenario \/ TieBreakScenario)
  /\ preDomains = domains
  /\ pc = "start"
  /\ threshold = 0
  /\ resultDomains = NilSlice
  /\ diag = ""
  /\ domainsToBalance = candidates
  /\ DPIdle
  /\ RotatorIdle

SpecScenarios == InitScenarios /\ [][Next]_vars

\* ------------------------------------------------------------ properties
Placed == pc = "done" /\ ~resultDomains.isNil /\ diag = ""
Failed == pc = "done" /\ resultDomains.isNil

RECURSIVE SumSliceState(_, _)
SumSliceState(D, list) ==
  IF list = <<>> THEN 0 ELSE D[Head(list)].sliceState + SumSliceState(D, Tail(list))

RECURSIVE SumLeaderState(_, _)
SumLeaderState(D, list) ==
  IF list = <<>> THEN 0 ELSE D[Head(list)].leaderState + SumLeaderState(D, Tail(list))

Range(q) == {q[k] : k \in 1..Len(q)}
Distinct(q) == Cardinality(Range(q)) = Len(q)

\* A placement as the claims about optimality see it: every candidate is left
\* out (0), taken without leader (1) or taken with leader (2); a leader needs
\* a domain with leader_state > 0.
Unused == "unused"
NoLeader == "withoutLeader"
WithLeader == "withLeader"
Choices(D) == [1..Len(D) -> {Unused, NoLeader, WithLeader}]
Used(c) == {k \in DOMAIN c : c[k] # Unused}
Leaders(c) == {k \in DOMAIN c : c[k] = WithLeader}
Capacity(D, c, k) ==
  IF c[k] = WithLeader THEN D[k].sliceStateWithLeader
  ELSE IF c[k] = NoLeader THEN D[k].sliceState ELSE 0

RECURSIVE TotalCapacity(_, _, _)
TotalCapacity(D, c, k) ==
  IF k = 0 THEN 0 ELSE Capacity(D, c, k) + TotalCapacity(D, c, k - 1)

\* The choice c hosts lc leaders and sc slices within the capacities.
Hosts(D, c, sc, lc) ==
  /\ Cardinality(Leaders(c)) = lc
  /\ \A k \in Leaders(c) : D[k].leaderState > 0
  /\ TotalCapacity(D, c, Len(D)) >= sc

\* Some placement on exactly n domains gives every one of them at least t
\* slices: the n domains hold the request, each has room for t, and there are
\* n * t slices to hand out.
BalancedAt(D, sc, lc, n, t) ==
  \E c \in Choices(D) :
    /\ Cardinality(Used(c)) = n
    /\ Hosts(D, c, sc, lc)
    /\ \A k \in Used(c) : Capacity(D, c, k) >= t
    /\ n * t <= sc

\* C1 Capacity respected: in a returned placement no selected domain holds
\* more slices than its pre-call capacity (with leader if it got the leader,
\* without otherwise).
CapacityRespected ==
  Placed =>
    \A k \in 1..Len(resultDomains.list) :
      LET d == resultDomains.list[k]
      IN domains[d].sliceState <=
           (IF domains[d].leaderState = 1 THEN preDomains[d].sliceStateWithLeader
            ELSE preDomains[d].sliceState)

\* C2 Conservation: a returned placement holds exactly slice_count slices and
\* leader_count leaders, for the threshold of the solver and for every other
\* threshold the balancer may be called with.
ConservedIn(r, sc, lc) ==
  (~r.result.isNil /\ r.diag = "") =>
     /\ SumSliceState(r.D, r.result.list) = sc
     /\ SumLeaderState(r.D, r.result.list) = lc

Conservation ==
  /\ Placed =>
       /\ SumSliceState(domains, resultDomains.list) = sliceCount
       /\ SumLeaderState(domains, resultDomains.list) = leaderCount
  /\ pc = "start" =>
       LET selected == selectOptimalDomainSetToFit(domains, candidates, sliceCount,
                                                   leaderCount, sliceSize, 0)
       IN \A thr \in 0..MaxSliceCount :
            ConservedIn(placeOnSelected(domains, selected, sliceCount, leaderCount,
                                        sliceSize, thr), sliceCount, leaderCount)

ConservationWitness ==
  /\ Placed
  /\ Len(resultDomains.list) >= 2
  /\ leaderCount >= 1
  /\ \E k \in 1..Len(resultDomains.list) :
       domains[resultDomains.list[k]].sliceState > threshold

\* C3 Threshold floor: every domain of a returned placement holds at least
\* the threshold the solver computed.
ThresholdFloor ==
  Placed =>
    \A k \in 1..Len(resultDomains.list) :
      domains[resultDomains.list[k]].sliceState >= threshold

\* C4 Failure purity: a call that fails leaves every counter of every domain
\* at its pre-call value.
FailurePurity == Failed => domains = preDomains

\* C5 Minimality: a selection of the DP consists of pairwise distinct
\* candidates, as many as the simulator's count, and so does the placement
\* returned from it.
Minimality ==
  /\ pc = "start" =>
       \A order \in MapOrders :
         LET sel == selectOptimalDomainSetToFit(domains, candidates, sliceCount,
                                                leaderCount, sliceSize, order)
         IN ~sel.isNil =>
              /\ Distinct(sel.list)
              /\ Range(sel.list) \subseteq Range(candidates)
              /\ Len(sel.list) =
                   simulateGreedy(domains, candidates, sliceCount, leaderCount).count
  /\ Placed =>
       /\ Distinct(resultDomains.list)
       /\ Len(resultDomains.list) =
            simulateGreedy(preDomains, candidates, sliceCount, leaderCount).count

MinimalityWitness ==
  /\ Placed
  /\ Len(resultDomains.list) = 2
  /\ Len(domains) = 3
  /\ leaderCount = 1

\* C6 Smallest number of domains: a returned placement for a request with
\* leaders and slices uses as few domains as any choice that hosts the request.
SmallestNumberOfDomains ==
  (Placed /\ leaderCount > 0 /\ sliceCount > 0) =>
    \A c \in Choices(preDomains) :
      Hosts(preDomains, c, sliceCount, leaderCount) =>
        Cardinality(Used(c)) >= Len(resultDomains.list)

\* C7 Threshold optimality: the threshold T of the solver is reached by some
\* capacity-respecting placement on optimal_count domains, and T + 1 by none.
\* (For the zero request no domain is selected and T is 0.)
ThresholdOptimality ==
  pc = "threshold" =>
    LET n == simulateGreedy(domains, candidates, sliceCount, leaderCount).count
    IN IF sliceCount = 0 /\ leaderCount = 0 THEN threshold = 0
       ELSE /\ BalancedAt(domains, sliceCount, leaderCount, n, threshold)
            /\ ~BalancedAt(domains, sliceCount, leaderCount, n, threshold + 1)

\* The threshold is clamped by a domain's capacity, below the mean.
ThresholdOptimalityWitness ==
  /\ pc = "threshold"
  /\ threshold >= 1
  /\ threshold <
       sliceCount \div simulateGreedy(domains, candidates, sliceCount, leaderCount).count

\* C8 No balancer residual: with the solver's threshold the balancer never
\* ends with slices or leaders left over.
NoBalancerResidual == diag # ErrNotPlaced

\* C9 Monotone infeasibility: if place fails for slice_count = k it fails for
\* k + 1 on the same topology with the same starting domain.
PlaceFails(st, sc) ==
  place(st, domains, candidates, sc, leaderCount, sliceSize, 0).result.isNil

MonotoneInfeasibility ==
  pc = "start" =>
    \A st \in StartingDomains :
      PlaceFails(st, sliceCount) => PlaceFails(st, sliceCount + 1)

\* C10 Determinism: a second run on an identical copy of the topology, whatever
\* order the runtime iterates the maps in, gives the diagnostic, the selected
\* domains and the counters of the first run.
Determinism ==
  (pc = "done" /\ diag # ErrStartingDomain) =>
    \A order \in MapOrders :
      LET r == placeSlicesOnDomainsBalanced(preDomains, candidates, sliceCount,
                                            leaderCount, sliceSize, threshold, order)
      IN /\ r.diag = diag
         /\ r.result = resultDomains
         /\ r.D = domains

DeterminismWitness ==
  /\ Placed
  /\ Len(resultDomains.list) >= 2
  /\ leaderCount >= 1
  /\ sliceCount >= 2

\* C12 Counter invariant: after a returned placement every domain still has
\* 0 <= slice_state_with_leader <= slice_state.
CounterInvariant ==
  Placed =>
    \A k \in 1..Len(domains) :
      /\ 0 <= domains[k].sliceStateWithLeader
      /\ domains[k].sliceStateWithLeader <= domains[k].sliceState

\* C13 Unit consistency: every domain of a returned placement has
\* state = slice_state * slice_size and
\* state_with_leader = slice_state_with_leader * slice_size.
UnitConsistency ==
  Placed =>
    \A k \in 1..Len(resultDomains.list) :
      LET d == domains[resultDomains.list[k]]
      IN /\ d.state = d.sliceState * sliceSize
         /\ d.stateWithLeader = d.sliceStateWithLeader * sliceSize

\* C15 Zero request: with slice_count = 0 and leader_count = 0 the solver
\* gives threshold 0 with ok, and the placement is the empty selection with
\* no diagnostic and every domain unchanged.
ZeroRequest ==
  (sliceCount = 0 /\ leaderCount = 0) =>
    /\ pc = "threshold" => threshold = 0
    /\ pc = "done" =>
         /\ Placed
         /\ resultDomains.list = <<>>
         /\ threshold = 0
         /\ domains = preDomains

ZeroRequestWitness ==
  /\ Placed
  /\ sliceCount = 0
  /\ leaderCount = 0
  /\ Len(domains) >= 2
  /\ \E k \in 1..Len(domains) : domains[k].sliceState > 0

\* C14 Outcome shape: a call of placeSlicesOnDomainsBalanced ends either with
\* a non-nil placement and an empty diagnostic or with a nil placement and one
\* of the three diagnostics, never with a placement and a diagnostic together.
OutcomeShape ==
  pc = "done" =>
    \/ ~resultDomains.isNil /\ diag = ""
    \/ resultDomains.isNil /\ diag \in {ErrCannotFit, ErrThreshold, ErrNotPlaced}

OutcomeShapeWitness ==
  /\ pc = "done"
  /\ resultDomains.isNil
  /\ diag = ErrNotPlaced
  /\ domains # preDomains

\* C17 Infeasible request: when the candidates' total slice_state is below
\* slice_count, placeSlicesOnDomainsBalanced returns nil with the diagnostic
\* "Cannot find optimal domain set to fit".
InfeasibleRequest ==
  (pc = "done" /\ TotalSliceState(preDomains) < sliceCount) =>
    /\ resultDomains.isNil
    /\ diag = ErrCannotFit
    /\ domains = preDomains

\* Children [2, 2] and a request of 5 slices without leader.
InfeasibleRequestWitness ==
  /\ pc = "done"
  /\ Len(preDomains) = 2
  /\ \A k \in 1..2 : preDomains[k].sliceState = 2
  /\ sliceCount = 5
  /\ leaderCount = 0
  /\ diag = ErrCannotFit

\* C20 Feasibility decision: simulateGreedy reports fits exactly when some
\* choice of domains, with leader_count of the leader-eligible ones hosting the
\* leaders, has capacity for slice_count slices.
FeasibilityDecision ==
  pc = "start" =>
    (simulateGreedy(domains, candidates, sliceCount, leaderCount).fits
       <=> \E c \in Choices(domains) : Hosts(domains, c, sliceCount, leaderCount))

\* The selections the DP ranks best: optimal_count domains, each taken with
\* leader (leader_state > 0) or without (slice_state > 0), hosting exactly
\* leader_count leaders and at least slice_count slices with the least surplus.
Picks(D, c) ==
  /\ \A k \in Leaders(c) : D[k].leaderState > 0
  /\ \A k \in Used(c) \ Leaders(c) : D[k].sliceState > 0

RECURSIVE LeadersPicked(_, _, _)
LeadersPicked(D, c, k) ==
  IF k = 0 THEN 0
  ELSE (IF c[k] = WithLeader THEN D[k].leaderState ELSE 0) + LeadersPicked(D, c, k - 1)

DPChoices(D, sc, lc, n) ==
  {c \in Choices(D) :
     /\ Cardinality(Used(c)) = n
     /\ Picks(D, c)
     /\ LeadersPicked(D, c, Len(D)) = lc
     /\ TotalCapacity(D, c, Len(D)) >= sc}

OptimalSelections(D, sc, lc, n) ==
  LET cs == DPChoices(D, sc, lc, n)
  IN {Used(c) : c \in {x \in cs : \A y \in cs :
        TotalCapacity(D, x, Len(D)) <= TotalCapacity(D, y, Len(D))}}

LeaderScenarioS4 ==
  (/\ pc = "start"
   /\ Len(domains) = 2
   /\ domains[1] = Domain(5, 4, 1, 1)
   /\ domains[2].sliceState = 5
   /\ domains[2].leaderState = 0
   /\ sliceCount = 7
   /\ leaderCount = 1) =>
    LET r == place([sliceStateWithLeader |-> 7, leaderState |-> 1], domains,
                   candidates, sliceCount, leaderCount, sliceSize, 0)
    IN /\ ~r.result.isNil
       /\ Range(r.result.list) = {1, 2}
       /\ r.D[1].sliceState = 4
       /\ r.D[1].leaderState = 1
       /\ r.D[2].sliceState = 3
       /\ r.D[2].leaderState = 0

\* C18 Balanced spread on equal capacities: n children of capacity c, no
\* leaders, k slices: the threshold is floor(k / m) for m = ceil(k / c), and
\* place returns m children whose slice counts, in result order, do not
\* increase, lie between floor(k / m) and c, and sum to k.
EqualCapacities ==
  /\ leaderCount = 0
  /\ Len(preDomains) >= 1
  /\ \A d \in 1..Len(preDomains) :
        /\ preDomains[d].sliceState = preDomains[1].sliceState
        /\ preDomains[d].sliceStateWithLeader = preDomains[1].sliceState
        /\ children[d] = <<>>
  /\ sliceCount > 0
  /\ sliceCount <= Len(preDomains) * preDomains[1].sliceState

BalancedSpread ==
  EqualCapacities =>
    LET c == preDomains[1].sliceState
        m == (sliceCount + c - 1) \div c
        list == resultDomains.list
    IN /\ pc = "threshold" => threshold = sliceCount \div m
       /\ (pc = "done" /\ diag # ErrStartingDomain) =>
            /\ Placed
            /\ threshold = sliceCount \div m
            /\ Len(list) = m
            /\ SumSliceState(domains, list) = sliceCount
            /\ \A j \in 1..m :
                 /\ domains[list[j]].sliceState >= sliceCount \div m
                 /\ domains[list[j]].sliceState <= c
                 /\ j < m => domains[list[j]].sliceState >= domains[list[j + 1]].sliceState

\* Children [4, 4, 4, 4] and 10 slices give [4, 3, 3].
BalancedSpreadWitness ==
  /\ Placed
  /\ Len(preDomains) = 4
  /\ \A d \in 1..4 : preDomains[d] = Domain(4, 4, 0, 1)
  /\ sliceCount = 10
  /\ threshold = 3
  /\ [j \in 1..Len(resultDomains.list) |-> domains[resultDomains.list[j]].sliceState]
       = <<4, 3, 3>>

\* C19 Entropy tie-break S6: of two children of equal slice_state whose
\* children's capacities differ in entropy, a placement of a request that fits
\* in one child takes the child of higher entropy when prioritize_by_entropy
\* is set, and the first child of the input when it is not.
EntropyTieBreak ==
  (/\ Placed
   /\ Len(preDomains) = 2
   /\ preDomains[1].sliceState = preDomains[2].sliceState
   /\ children[1] # <<>>
   /\ children[2] # <<>>
   /\ calculateEntropy(children[1]) # calculateEntropy(children[2])
   /\ Len(resultDomains.list) = 1) =>
    resultDomains.list[1] =
      IF prioritizeByEntropy
      THEN (IF EntropyGreater(calculateEntropy(children[1]), calculateEntropy(children[2]))
            THEN 1 ELSE 2)
      ELSE 1

\* C21 Leader phase: when at least leader_count candidates have
\* leader_state > 0, the leader loop of simulateGreedy ends with no leader
\* left to place.
LeaderPhase ==
  (/\ pc = "start"
   /\ leaderCount > 0
   /\ Cardinality({d \in 1..Len(domains) : domains[d].leaderState > 0}) >= leaderCount) =>
    LeaderLoop(domains, sortedDomainsWithLeader(domains, candidates), 1,
               [count |-> 0, last |-> 0, leaders |-> leaderCount,
                slices |-> sliceCount, idx |-> 1]).leaders <= 0

\* C24 Threshold guard: with the threshold of balanceThresholdValue for the
\* same candidates and request, slice_count >= len(selected) * threshold, and
\* the diagnostic "Not enough slices to meet the threshold" is never returned.
ThresholdGuardUnreachable ==
  /\ diag # ErrThreshold
  /\ pc = "threshold" =>
       \A order \in MapOrders :
         LET sel == selectOptimalDomainSetToFit(domains, candidates, sliceCount,
                                                leaderCount, sliceSize, order)
         IN ~sel.isNil => sliceCount >= Len(sel.list) * threshold

\* The guard is passed with nothing to spare.
ThresholdGuardUnreachableWitness ==
  /\ Placed
  /\ Len(resultDomains.list) >= 2
  /\ threshold >= 1
  /\ sliceCount = Len(resultDomains.list) * threshold

\* C26 Leaders only on eligible domains: every domain of a returned placement
\* with leader_state 1 after the call had leader_state 1 before it.
LeadersOnlyOnEligible ==
  Placed =>
    \A k \in 1..Len(resultDomains.list) :
      LET d == resultDomains.list[k]
      IN domains[d].leaderState = 1 => preDomains[d].leaderState = 1

\* C28 No division by zero: balanceThresholdValue never divides by a
\* selectedDomainsCount of 0.
NoDivisionByZero == diag # PanicDivide

\* The division is reached with leaders and no slices to place.
NoDivisionByZeroWitness ==
  /\ pc = "threshold"
  /\ sliceCount = 0
  /\ leaderCount > 0
  /\ simulateGreedy(domains, candidates, sliceCount, leaderCount).count >= 1

DPCompleteness ==
  pc = "done" =>
    (diag = ErrCannotFit
       <=> ~simulateGreedy(preDomains, candidates, sliceCount, leaderCount).fits)

\* A feasible request with leaders that no selection fits exactly.
DPCompletenessWitness ==
  /\ pc = "done"
  /\ diag # ErrCannotFit
  /\ leaderCount >= 1
  /\ sliceCount >= 2
  /\ LET n == simulateGreedy(preDomains, candidates, sliceCount, leaderCount).count
     IN /\ n >= 2
        /\ \A c \in DPChoices(preDomains, sliceCount, leaderCount, n) :
              TotalCapacity(preDomains, c, Len(preDomains)) > sliceCount

\* C25 Frame: a placement call changes no counter of a domain that is not in
\* the returned selection and leaves the caller's candidate list in its
\* order, whatever prioritize_by_entropy is.
FrameCondition ==
  pc = "done" =>
    /\ \A k \in 1..Len(domains) :
         (resultDomains.isNil \/ k \notin Range(resultDomains.list))
           => domains[k] = preDomains[k]
    /\ domainsToBalance = candidates

\* The visit just made found a list in the cell it was to write, for one of
\* the two cases of the loop body, and that list is another one.
RefusedWrite ==
  /\ pc = "dp"
  /\ levelIdx >= 1
  /\ cellIdx >= 2
  /\ \E order \in MapOrders :
       LET before == beforeCells(order)[cellIdx - 1]
           d == candidates[domainIdx]
           newPlacement == Append(before.p, d)
       IN /\ ~(before.l <= 0 /\ before.s <= 0)
          /\ \/ /\ before.l > 0 /\ domains[d].leaderState > 0
                /\ \E c \in domainPlacements[levelIdx] :
                     /\ c.l = before.l - domains[d].leaderState
                     /\ c.s = before.s - domains[d].stateWithLeader
                     /\ c.p # newPlacement
             \/ /\ domains[d].sliceState > 0
                /\ \E c \in domainPlacements[levelIdx] :
                     /\ c.l = before.l
                     /\ c.s = before.s - domains[d].state
                     /\ c.p # newPlacement

\* C23 First-writer-wins: during the DP a cell that holds a domain list keeps
\* that list through every later step, and the list returned is the list of
\* a cell of the last level.
FirstWriterWins ==
  [][pc = "dp" =>
       /\ DOMAIN domainPlacements' = DOMAIN domainPlacements
       /\ \A j \in DOMAIN domainPlacements :
            domainPlacements[j] \subseteq domainPlacements'[j]
       /\ (pc' = "done" /\ ~resultDomains'.isNil) =>
            \E c \in domainPlacements[optimalNumberOfDomains] :
              c.p = resultDomains'.list]_vars

\* A later candidate reached a cell that was written before, and the cell
\* kept its list.
FirstWriterWinsWitness ==
  /\ RefusedWrite
  /\ Len(domains) = 3
  /\ leaderCount >= 1

\* C29 Cert rotator readiness: IsReady is closed at most once, and only after
\* certsMounted was closed, the cert file was seen on disk and wasCAInjected
\* was seen true; certsMounted and certsNotMounted are never both closed and
\* neither is closed twice.
RotatorReadiness ==
  /\ cr.IsReady <= 1
  /\ cr.certsMounted <= 1
  /\ cr.certsNotMounted <= 1
  /\ ~(Closed(cr.certsMounted) /\ Closed(cr.certsNotMounted))
  /\ Closed(cr.certsMounted) => observed.certFile
  /\ (Closed(cr.IsReady) \/ readyCall.pc = "closeReady") =>
       /\ Closed(cr.certsMounted)
       /\ observed.certFile
       /\ observed.caInjected
       /\ cr.wasCAInjected

\* IsReady was closed while Reconcile calls went on, one of them having failed.
RotatorReadinessWitness ==
  /\ Closed(cr.IsReady)
  /\ readyCall.steps >= 1
  /\ reconcileCall.calls = MaxReconciles
  /\ reconcileCall.result = "error"

\* C30 CA injection flag: a Reconcile call that reaches ensureCerts attempts
\* every configured webhook; it sets wasCAInjected only when no webhook get
\* (other than not-found), injection or update failed, and when one failed it
\* returns an error and does not set the flag; a call that returns before
\* ensureCerts does not set it either.
CAInjectionFlag ==
  reconcileCall.pc = "returned" =>
    /\ reconcileCall.ensured =>
         /\ reconcileCall.attempted = [k \in 1..cr.Webhooks |-> k]
         /\ reconcileCall.stored <=> ~reconcileCall.failed
         /\ reconcileCall.failed <=> reconcileCall.result = "error"
    /\ ~reconcileCall.ensured => ~reconcileCall.stored
    /\ reconcileCall.stored => cr.wasCAInjected

\* The first webhook failed, the second was updated, and the call returned an
\* error without setting the flag.
CAInjectionFlagWitness ==
  /\ reconcileCall.pc = "returned"
  /\ reconcileCall.ensured
  /\ cr.Webhooks = 2
  /\ reconcileCall.attempted = <<1, 2>>
  /\ reconcileCall.failed
  /\ ~reconcileCall.stored
  /\ ~cr.wasCAInjected
  /\ reconcileCall.result = "error"
====
